---- MODULE Spec2Model ----
(***************************************************************************)
(* A model of smartllm_router: the model catalog and the model selector    *)
(* (selector.py), routing rules (rules.py), the query analyzer             *)
(* (analyzer.py), the usage tracker (tracker.py) and SmartRouter.create    *)
(* with its response cache and provider fallback (router.py).              *)
(*                                                                         *)
(* Units.  Floats are kept exact as integers:                              *)
(*   - prices are in 1e-5 dollars per 1000 tokens (0.0005 -> 50);          *)
(*   - a cost is tokens * price, i.e. in 1e-8 dollars;                     *)
(*   - complexity scores and ratios are in 1e-4 units (0.3 -> 3000);       *)
(*   - speed and quality scores are in tenths (7.5 -> 75).                 *)
(***************************************************************************)
EXTENDS Integers, Sequences, FiniteSets, TLC

VARIABLES
    \* ---- ModelSelector.select_model called directly (SpecSelect) ----
    sel_rules,        \* the custom_rules list handed to select_model
    sel_call,         \* the last select_model call: its arguments and result
    \* ---- SmartRouter (Spec) ----
    now,              \* the wall clock (time.time() / datetime.now())
    strategy,         \* SmartRouter.strategy
    enable_fallback,  \* SmartRouter.enable_fallback
    api_keys,         \* the providers an API key is configured for
    cache_ttl,        \* SmartRouter.cache_ttl
    custom_rules,     \* SmartRouter.custom_rules
    cache,            \* SmartRouter.cache: cache key -> entry
    requests,         \* CostTracker.requests
    daily_costs,      \* CostTracker.daily_costs
    model_usage,      \* CostTracker.model_usage
    total_savings,    \* CostTracker.total_savings
    last,             \* the last create() call: arguments, what it did, outcome
    \* ---- CostTracker and QueryAnalyzer called directly ----
    analytics,        \* the last get_analytics call: its arguments and result
    an_call,          \* the last analyzer call: its arguments and result
    \* ---- threads sharing one SmartRouter (SpecThreads) ----
    threads           \* thread -> where it is in its call, and its locals

vars == <<sel_rules, sel_call, now, strategy, enable_fallback,
          api_keys, cache_ttl, custom_rules, cache, requests, daily_costs, model_usage,
          total_savings, last, analytics, an_call, threads>>

selVars == <<sel_rules, sel_call>>
callVars == <<analytics, an_call, threads>>
routerVars == <<now, strategy, enable_fallback, api_keys, cache_ttl,
                custom_rules, cache,
                requests, daily_costs, model_usage, total_savings, last>>

(***************************************************************************)
(* Bounds of the model.                                                    *)
(***************************************************************************)
MaxRules == 2        \* longest rule list handed to select_model
MaxRouterRules == 1  \* longest SmartRouter.custom_rules
MaxRequests == 2     \* longest CostTracker.requests
MaxTime == 3         \* the clock stops advancing here
MaxThreads == 2      \* threads that share one SmartRouter

(***************************************************************************)
(* selector.py: the catalog.                                               *)
(***************************************************************************)
Model(name, provider, cin, cout, maxTokens, speed, quality, caps) ==
    [name |-> name, provider |-> provider,
     cost_per_1k_input |-> cin, cost_per_1k_output |-> cout,
     max_tokens |-> maxTokens, speed_score |-> speed,
     quality_score |-> quality, capabilities |-> caps]

ModelProvider == {"openai", "anthropic", "google", "mistral"}

_initialize_models ==
    ("gpt-3.5-turbo" :> Model("gpt-3.5-turbo", "openai", 50, 150, 4096, 90, 70,
                              {"general", "code_generation", "summarization"}))
 @@ ("gpt-4o-mini" :> Model("gpt-4o-mini", "openai", 15, 60, 128000, 90, 90,
                            {"general", "code_generation", "summarization",
                             "reasoning"}))
 @@ ("gpt-4" :> Model("gpt-4", "openai", 3000, 6000, 8192, 60, 100, {"all"}))
 @@ ("claude-3-haiku" :> Model("claude-3-haiku", "anthropic", 25, 125, 200000,
                               100, 75,
                               {"general", "summarization", "long_context"}))
 @@ ("claude-3-opus" :> Model("claude-3-opus", "anthropic", 1500, 7500, 200000,
                              50, 100, {"all"}))
 @@ ("mistral-7b" :> Model("mistral-7b", "mistral", 20, 20, 8192, 80, 60,
                           {"general", "code_generation"}))
 @@ ("gemini-pro" :> Model("gemini-pro", "google", 25, 50, 32000, 80, 80,
                           {"general", "code_generation",
                            "mathematical_reasoning"}))

models == _initialize_models

CatalogNames == DOMAIN models

\* What a lookup that finds nothing yields (dict.get -> None).
NoModel == [name |-> "<none>"]

(***************************************************************************)
(* analyzer.py: QueryComplexity; rules.py: RoutingRule.                    *)
(***************************************************************************)
QueryComplexity(tokens, vocab, task, estOut, caps, score) ==
    [token_count |-> tokens, vocabulary_complexity |-> vocab,
     task_type |-> task, estimated_output_tokens |-> estOut,
     required_capabilities |-> caps, complexity_score |-> score]

RoutingRule(name, condition, model, priority) ==
    [name |-> name, condition |-> condition, model |-> model,
     priority |-> priority]

\* rule.condition(complexity): the rule's closure, as a tagged expression over
\* the descriptor.
condition(rule, complexity) ==
    CASE rule.condition.field = "task_type" ->
            complexity.task_type = rule.condition.value
      [] rule.condition.field = "complexity_score_gt" ->
            complexity.complexity_score > rule.condition.value
      [] rule.condition.field = "capability" ->
            rule.condition.value \in complexity.required_capabilities

(***************************************************************************)
(* selector.py: ModelSelector.                                             *)
(***************************************************************************)
_select_cost_optimized(complexity) ==
    IF complexity.complexity_score < 3000 THEN models["mistral-7b"]
    ELSE IF complexity.complexity_score < 5000 THEN models["claude-3-haiku"]
    ELSE IF complexity.complexity_score < 7000 THEN models["gpt-3.5-turbo"]
    ELSE IF complexity.complexity_score < 8500 THEN models["gemini-pro"]
    ELSE models["gpt-4"]

_select_quality_first(complexity) ==
    IF complexity.complexity_score < 2000 THEN models["gpt-3.5-turbo"]
    ELSE IF complexity.complexity_score < 6000 THEN models["gemini-pro"]
    ELSE models["gpt-4"]

\* _select_balanced with the long_context override tried first.
_select_balanced_long_context_first(complexity) ==
    IF "long_context" \in complexity.required_capabilities
    THEN models["claude-3-haiku"]
    ELSE IF "code_generation" \in complexity.required_capabilities
    THEN IF complexity.complexity_score > 7000 THEN models["gpt-4"]
         ELSE models["gpt-3.5-turbo"]
    ELSE IF "mathematical_reasoning" \in complexity.required_capabilities
    THEN IF complexity.complexity_score > 6000 THEN models["gpt-4"]
         ELSE models["gemini-pro"]
    ELSE IF complexity.complexity_score < 4000 THEN models["claude-3-haiku"]
    ELSE IF complexity.complexity_score < 7000 THEN models["gpt-3.5-turbo"]
    ELSE models["gpt-4"]

_select_balanced(complexity) ==
    IF "code_generation" \in complexity.required_capabilities
    THEN IF complexity.complexity_score > 7000 THEN models["gpt-4"]
         ELSE models["gpt-3.5-turbo"]
    ELSE IF "long_context" \in complexity.required_capabilities
    THEN models["claude-3-haiku"]
    ELSE IF "mathematical_reasoning" \in complexity.required_capabilities
    THEN IF complexity.complexity_score > 6000 THEN models["gpt-4"]
         ELSE models["gemini-pro"]
    ELSE IF complexity.complexity_score < 4000 THEN models["claude-3-haiku"]
    ELSE IF complexity.complexity_score < 7000 THEN models["gpt-3.5-turbo"]
    ELSE models["gpt-4"]

RemoveAt(s, i) == SubSeq(s, 1, i - 1) \o SubSeq(s, i + 1, Len(s))

\* sorted(custom_rules, key=lambda r: r.priority, reverse=True): Python's sort
\* is stable, and stays stable under reverse=True, so among equal priorities
\* the earlier rule of the list comes first.
RECURSIVE sorted_ascending(_)
sorted_ascending(rules) ==
    IF rules = <<>> THEN <<>>
    ELSE LET lo == CHOOSE p \in {rules[i].priority : i \in DOMAIN rules} :
                       \A i \in DOMAIN rules : rules[i].priority >= p
             k == CHOOSE i \in DOMAIN rules :
                       /\ rules[i].priority = lo
                       /\ \A j \in DOMAIN rules :
                              rules[j].priority = lo => i <= j
         IN <<rules[k]>> \o sorted_ascending(RemoveAt(rules, k))

\* sorted(custom_rules, key=...)[::-1]: descending, with the rules of equal
\* priority in the reverse of their order in the list.
sorted_then_reversed(rules) ==
    [i \in 1..Len(rules) |-> sorted_ascending(rules)[Len(rules) + 1 - i]]

RECURSIVE sorted_by_priority(_)
sorted_by_priority(rules) ==
    IF rules = <<>> THEN <<>>
    ELSE LET hi == CHOOSE p \in {rules[i].priority : i \in DOMAIN rules} :
                       \A i \in DOMAIN rules : rules[i].priority <= p
             k == CHOOSE i \in DOMAIN rules :
                       /\ rules[i].priority = hi
                       /\ \A j \in DOMAIN rules :
                              rules[j].priority = hi => i <= j
         IN <<rules[k]>> \o sorted_by_priority(RemoveAt(rules, k))

\* The loop of select_model over the sorted rules: the model of the first rule
\* whose condition holds and whose model is in the catalog, NoModel when the
\* loop falls through.
RECURSIVE first_match_unchecked(_, _)
first_match_unchecked(sorted, complexity) ==
    IF sorted = <<>> THEN NoModel
    ELSE IF condition(Head(sorted), complexity)
         THEN IF Head(sorted).model \in CatalogNames
              THEN models[Head(sorted).model]
              ELSE [name |-> "<KeyError>"]
         ELSE first_match_unchecked(Tail(sorted), complexity)

RECURSIVE first_match(_, _)
first_match(sorted, complexity) ==
    IF sorted = <<>> THEN NoModel
    ELSE IF /\ condition(Head(sorted), complexity)
            /\ Head(sorted).model \in CatalogNames
         THEN models[Head(sorted).model]
         ELSE first_match(Tail(sorted), complexity)

strategy_dispatch_strict(complexity, strat) ==
    IF strat = "cost_optimized" THEN _select_cost_optimized(complexity)
    ELSE IF strat = "quality_first" THEN _select_quality_first(complexity)
    ELSE IF strat = "balanced" THEN _select_balanced(complexity)
    ELSE NoModel

strategy_dispatch(complexity, strat) ==
    IF strat = "cost_optimized" THEN _select_cost_optimized(complexity)
    ELSE IF strat = "quality_first" THEN _select_quality_first(complexity)
    ELSE _select_balanced(complexity)

select_model_strategy_first(complexity, strat, rules) ==
    IF strat \in {"cost_optimized", "quality_first"}
    THEN strategy_dispatch(complexity, strat)
    ELSE LET byRule == first_match(sorted_by_priority(rules), complexity)
         IN IF byRule # NoModel THEN byRule
            ELSE strategy_dispatch(complexity, strat)

select_model(complexity, strat, rules) ==
    LET byRule == IF rules # <<>>
                  THEN first_match(sorted_by_priority(rules), complexity)
                  ELSE NoModel
    IN IF byRule # NoModel THEN byRule
       ELSE strategy_dispatch(complexity, strat)

(***************************************************************************)
(* SpecSelect: ModelSelector.select_model called directly, as the tests    *)
(* do, on descriptors, strategies and rule lists of the caller's choice.   *)
(***************************************************************************)
StrategyNames == {"cost_optimized", "quality_first", "balanced"}

\* "speed_first" stands for any name outside StrategyNames: SmartRouter and
\* select_model accept any string.
StrategyInputs == StrategyNames \cup {"speed_first"}

SelScores == {0, 1999, 2000, 2999, 3000, 3999, 4000, 4999, 5000, 5001, 5999,
              6000, 6001, 6999, 7000, 7001, 8499, 8500, 10000}

SelCapabilities == {"code_generation", "long_context", "mathematical_reasoning"}

\* The task type goes with the capabilities as the analyzer pairs them:
\* code_generation is required exactly of a "code" query.
SelDescriptors ==
    {QueryComplexity(10, 3000,
                     IF "code_generation" \in caps THEN "code" ELSE "general",
                     20, caps, score) :
        caps \in SUBSET SelCapabilities, score \in SelScores}

RuleConditions == {[field |-> "task_type", value |-> "code"],
                   [field |-> "complexity_score_gt", value |-> 5000]}

\* <<target model, priority>>: two catalog models tied at the top priority, a
\* model the catalog does not hold, and a catalog model at the default
\* priority of RoutingRule.
RuleTargets == {<<"gpt-4", 100>>, <<"mistral-7b", 100>>,
                <<"no-such-model", 100>>, <<"gpt-4", 50>>}

RuleUniverse ==
    {RoutingRule("rule", c, t[1], t[2]) : c \in RuleConditions, t \in RuleTargets}

NoCall == [called |-> FALSE]

InitRouterIdle ==
    /\ now = 0
    /\ strategy = "balanced"
    /\ enable_fallback = TRUE
    /\ api_keys = {}
    /\ cache_ttl = 0
    /\ custom_rules = <<>>
    /\ cache = <<>>
    /\ requests = <<>>
    /\ daily_costs = <<>>
    /\ model_usage = <<>>
    /\ total_savings = 0
    /\ last = NoCall

InitCallsIdle ==
    /\ analytics = NoCall
    /\ an_call = NoCall
    /\ threads = <<>>

InitSelect ==
    /\ sel_rules = <<>>
    /\ sel_call = NoCall
    /\ InitRouterIdle
    /\ InitCallsIdle

\* The caller extends the rule list it will pass.
SelAddRule(rule) ==
    /\ Len(sel_rules) < MaxRules
    /\ sel_rules' = Append(sel_rules, rule)
    /\ sel_call' = NoCall
    /\ UNCHANGED routerVars
    /\ UNCHANGED callVars

\* One call at a time: its result is read before the caller goes on.
SelSelectModel(complexity, strat) ==
    /\ sel_call = NoCall
    /\ sel_call' = [called |-> TRUE, complexity |-> complexity,
                    strategy |-> strat,
                    result |-> select_model(complexity, strat, sel_rules)]
    /\ UNCHANGED sel_rules
    /\ UNCHANGED routerVars
    /\ UNCHANGED callVars

NextSelect ==
    \/ \E rule \in RuleUniverse : SelAddRule(rule)
    \/ \E complexity \in SelDescriptors, strat \in StrategyInputs :
           SelSelectModel(complexity, strat)

SpecSelect == InitSelect /\ [][NextSelect]_vars

(***************************************************************************)
(* analyzer.py: QueryAnalyzer.  A query text is known to the analyzer by   *)
(* what the tokenizer and the regular expressions make of it: its features.*)
(***************************************************************************)
QueryFeatures(tokens, unique, length, patterns, arithmetic, structured) ==
    [tokens |-> tokens,          \* len(self.encoder.encode(query))
     unique |-> unique,          \* len(set(tokens))
     length |-> length,          \* len(query)
     patterns |-> patterns,      \* task categories with a pattern that matches
     arithmetic |-> arithmetic,  \* re.search(r'\d+[\+\-\*/]\d+', query)
     structured |-> structured]  \* re.search(r'json|xml|yaml|csv', ...)

QueryTexts == {"What is the capital of France?",
               "Write a Python function to implement quicksort",
               ""}

features(query) ==
    CASE query = "What is the capital of France?" ->
            QueryFeatures(7, 7, 30, {"simple_qa"}, FALSE, FALSE)
      [] query = "Write a Python function to implement quicksort" ->
            QueryFeatures(8, 8, 46, {"code"}, FALSE, FALSE)
      [] query = "" ->
            QueryFeatures(0, 0, 0, {}, FALSE, FALSE)

\* self.task_patterns, in the order of the dict.
task_patterns == <<"simple_qa", "summarization", "code", "analysis",
                   "creative", "math", "reasoning">>

\* The loop of lines 98-101 as it would run over a dict kept in the
\* alphabetical order of its keys.
detect_by_patterns_sorted_keys(patterns) ==
    LET keys == <<"analysis", "code", "creative", "math", "reasoning",
                  "simple_qa", "summarization">>
    IN IF \E i \in DOMAIN keys : keys[i] \in patterns
       THEN keys[CHOOSE i \in DOMAIN keys :
               /\ keys[i] \in patterns
               /\ \A j \in DOMAIN keys : keys[j] \in patterns => i <= j]
       ELSE "general"

\* The loop of lines 98-101 for a text of which `patterns` is the set of
\* categories with a pattern that re.search finds in it.
detect_by_patterns(patterns) ==
    IF \E i \in DOMAIN task_patterns : task_patterns[i] \in patterns
    THEN task_patterns[CHOOSE i \in DOMAIN task_patterns :
            /\ task_patterns[i] \in patterns
            /\ \A j \in DOMAIN task_patterns :
                   task_patterns[j] \in patterns => i <= j]
    ELSE "general"

_detect_task_type(query) == detect_by_patterns(features(query).patterns)

\* multipliers, in tenths.
_estimate_output_tokens(task_type, input_tokens) ==
    LET multiplier == CASE task_type = "simple_qa" -> 5
                        [] task_type = "summarization" -> 3
                        [] task_type = "code" -> 25
                        [] task_type = "analysis" -> 20
                        [] task_type = "creative" -> 30
                        [] task_type = "math" -> 15
                        [] task_type = "reasoning" -> 20
                        [] OTHER -> 10
    IN (input_tokens * multiplier) \div 10

_detect_required_capabilities(query, task_type) ==
    (IF task_type = "code" THEN {"code_generation"} ELSE {})
    \cup (IF task_type = "math" \/ features(query).arithmetic
          THEN {"mathematical_reasoning"} ELSE {})
    \cup (IF task_type \in {"analysis", "reasoning"}
          THEN {"complex_reasoning"} ELSE {})
    \cup (IF features(query).length > 1000 THEN {"long_context"} ELSE {})
    \cup (IF features(query).structured THEN {"structured_output"} ELSE {})

Min(a, b) == IF a < b THEN a ELSE b
Max(a, b) == IF a > b THEN a ELSE b

\* In 1e-4 units; vocab_complexity comes in 1e-4 units too.
_calculate_complexity_score_uncapped(token_count, vocab_complexity, task_type, capabilities) ==
    LET token_score == token_count * 4
        vocab_score == (vocab_complexity * 2) \div 10
        task_score == CASE task_type = "simple_qa" -> 400
                        [] task_type = "summarization" -> 1200
                        [] task_type = "code" -> 3200
                        [] task_type = "analysis" -> 2800
                        [] task_type = "creative" -> 2400
                        [] task_type = "math" -> 3200
                        [] task_type = "reasoning" -> 3600
                        [] OTHER -> 2000
        capability_score == Min(Cardinality(capabilities) * 1000, 2000)
    IN token_score + vocab_score + task_score + capability_score

_calculate_complexity_score(token_count, vocab_complexity, task_type, capabilities) ==
    LET token_score == Min(token_count * 4, 2000)
        vocab_score == (vocab_complexity * 2) \div 10
        task_score == CASE task_type = "simple_qa" -> 400
                        [] task_type = "summarization" -> 1200
                        [] task_type = "code" -> 3200
                        [] task_type = "analysis" -> 2800
                        [] task_type = "creative" -> 2400
                        [] task_type = "math" -> 3200
                        [] task_type = "reasoning" -> 3600
                        [] OTHER -> 2000
        capability_score == Min(Cardinality(capabilities) * 1000, 2000)
    IN token_score + vocab_score + task_score + capability_score

analyze(query) ==
    LET token_count == features(query).tokens
        vocabulary_complexity ==
            IF token_count > 0
            THEN (features(query).unique * 10000) \div token_count
            ELSE 0
        task_type == _detect_task_type(query)
        capabilities == _detect_required_capabilities(query, task_type)
    IN QueryComplexity(token_count, vocabulary_complexity, task_type,
                       _estimate_output_tokens(task_type, token_count),
                       capabilities,
                       _calculate_complexity_score(token_count,
                           vocabulary_complexity, task_type, capabilities))

(***************************************************************************)
(* tracker.py: CostTracker.                                                *)
(***************************************************************************)
\* timestamp.date(): the clock counts ticks, TicksPerDay of them to a day.
TicksPerDay == 2

date(timestamp) == timestamp \div TicksPerDay

\* d[k] += v on a defaultdict.
DefaultAdd(d, k, v) ==
    IF k \in DOMAIN d THEN [d EXCEPT ![k] = @ + v] ELSE (k :> v) @@ d

CostTracker(reqs, daily, usage, savings) ==
    [requests |-> reqs, daily_costs |-> daily, model_usage |-> usage,
     total_savings |-> savings]

\* Lines 47-50 with the day's cost assigned where the code adds to it.
track_request_overwriting(tracker, model, provider, input_tokens, output_tokens, cost, savings, latency, timestamp) ==
    LET request_data == [timestamp |-> timestamp, model |-> model,
                         provider |-> provider, input_tokens |-> input_tokens,
                         output_tokens |-> output_tokens, cost |-> cost,
                         savings |-> savings, latency |-> latency]
    IN CostTracker(Append(tracker.requests, request_data),
                   (date(timestamp) :> cost) @@ tracker.daily_costs,
                   DefaultAdd(tracker.model_usage, model, 1),
                   tracker.total_savings + savings)

track_request(tracker, model, provider, input_tokens, output_tokens, cost, savings, latency, timestamp) ==
    LET request_data == [timestamp |-> timestamp, model |-> model,
                         provider |-> provider, input_tokens |-> input_tokens,
                         output_tokens |-> output_tokens, cost |-> cost,
                         savings |-> savings, latency |-> latency]
    IN CostTracker(Append(tracker.requests, request_data),
                   DefaultAdd(tracker.daily_costs, date(timestamp), cost),
                   DefaultAdd(tracker.model_usage, model, 1),
                   tracker.total_savings + savings)

RECURSIVE Sum(_)
Sum(numbers) ==
    IF numbers = <<>> THEN 0 ELSE Head(numbers) + Sum(Tail(numbers))

\* The quotient n / d rounded to the nearest integer, halves to the even
\* one, as round() does (n >= 0, d > 0).
RoundDiv(n, d) ==
    LET q == n \div d
        r == n % d
    IN IF 2 * r < d THEN q
       ELSE IF 2 * r > d THEN q + 1
       ELSE IF q % 2 = 0 THEN q ELSE q + 1

\* round(amount, 4) of an amount of dollars.  get_analytics is applied to
\* amounts kept in 1e-6 dollars (0.002 -> 2000), so that its products stay
\* within 32 bits.
round4(amount) == RoundDiv(amount, 100) * 100

\* str(date).
str(day) == <<"isoformat", day>>

\* The dict returned for a window with no request: it has no
\* cost_reduction_percentage key.
EmptyAnalytics ==
    [total_requests |-> 0, total_cost |-> 0, total_savings |-> 0,
     average_latency |-> 0, model_distribution |-> <<>>,
     daily_costs |-> <<>>]

\* timedelta(days=period_days) is period_days * TicksPerDay ticks.  The
\* percentage is in hundredths of a percent (round(..., 2)), the average
\* latency in thousandths of a tick (round(..., 3)).
get_analytics(tracker, time, period_days) ==
    LET cutoff == time - period_days * TicksPerDay
        recent_requests == SelectSeq(tracker.requests,
                                     LAMBDA r : r.timestamp > cutoff)
        total_cost == Sum([i \in DOMAIN recent_requests |->
                              recent_requests[i].cost])
        total_savings_ == Sum([i \in DOMAIN recent_requests |->
                                 recent_requests[i].savings])
        latencies == Sum([i \in DOMAIN recent_requests |->
                             recent_requests[i].latency])
        names == {recent_requests[i].model : i \in DOMAIN recent_requests}
        days == {d \in DOMAIN tracker.daily_costs : d > date(cutoff)}
    IN IF recent_requests = <<>> THEN EmptyAnalytics
       ELSE [total_requests |-> Len(recent_requests),
             total_cost |-> round4(total_cost),
             total_savings |-> round4(total_savings_),
             cost_reduction_percentage |->
                 IF total_cost + total_savings_ > 0
                 THEN RoundDiv(total_savings_ * 10000,
                               total_cost + total_savings_)
                 ELSE 0,
             average_latency |-> RoundDiv(latencies * 1000,
                                          Len(recent_requests)),
             model_distribution |->
                 [m \in names |->
                     Cardinality({i \in DOMAIN recent_requests :
                                     recent_requests[i].model = m})],
             daily_costs |->
                 [k \in {str(d) : d \in days} |->
                     round4(tracker.daily_costs[k[2]])]]

\* The tracker that get_analytics leaves: lines 55-88 assign to no attribute
\* of self, iterate self.requests and self.daily_costs.items() without
\* looking up a key, and count into a dict of their own (model_dist).
tracker_after_analytics_touching(tracker, time, period_days) ==
    [tracker EXCEPT !.daily_costs = DefaultAdd(@, date(time), 0)]

tracker_after_analytics_pruned(tracker, time, period_days) ==
    [tracker EXCEPT !.requests =
        SelectSeq(@, LAMBDA r : r.timestamp > time - period_days * TicksPerDay)]

tracker_after_analytics(tracker, time, period_days) == tracker

(***************************************************************************)
(* router.py: SmartRouter.                                                 *)
(***************************************************************************)
RouterResponse(content, model, provider, input_tokens, output_tokens, cost, savings, latency) ==
    [content |-> content, model |-> model, provider |-> provider,
     input_tokens |-> input_tokens, output_tokens |-> output_tokens,
     cost |-> cost, savings |-> savings, latency |-> latency]

RECURSIVE _extract_query(_)
_extract_query(messages) ==
    IF messages = <<>> THEN ""
    ELSE IF messages[Len(messages)].role = "user"
         THEN messages[Len(messages)].content
         ELSE _extract_query(SubSeq(messages, 1, Len(messages) - 1))

\* str(hash(query)): one key per query text.  hash() is deterministic within
\* a process and has no collision among the query texts of the model.
_generate_cache_key(query) == <<"hash", query>>

_calculate_cost(model, input_tokens, output_tokens) ==
    LET input_cost == input_tokens * model.cost_per_1k_input
        output_cost == output_tokens * model.cost_per_1k_output
    IN input_cost + output_cost

\* Lines 91-93: the entry is there and younger than cache_ttl.
cache_hit_or_stale(entries, cache_key, time, ttl) ==
    cache_key \in DOMAIN entries

cache_hit(entries, cache_key, time, ttl) ==
    /\ cache_key \in DOMAIN entries
    /\ time - entries[cache_key].timestamp < ttl

\* Lines 92-95: a hit returns the stored response and writes nothing.
cache_after_hit_sliding(entries, cache_key, time) ==
    [entries EXCEPT ![cache_key].timestamp = time]

cache_after_hit(entries, cache_key, time) == entries

\* The outcome of one provider call function (_call_openai_api, ...): no key
\* raises before any request is made; with a key the provider is invoked and
\* answers or fails.
_call_provider_api(model, keys, answers, text_length) ==
    IF model.provider \notin keys
    THEN [raised |-> TRUE, error |-> "MissingCredential", invoked |-> <<>>]
    ELSE IF answers
    THEN [raised |-> FALSE, invoked |-> <<model.name>>,
          content |-> [by |-> model.name, length |-> text_length]]
    ELSE [raised |-> TRUE, error |-> "ProviderInvocationFailure",
          invoked |-> <<model.name>>]

\* How one provider call function ended.
Outcome(call) == IF call.raised THEN call.error ELSE "ok"

\* Lines 181-199.  `attempts` is how the provider call function of the
\* selected model ended, followed by how the fallback call ended if made.
_call_model_api_retry_selected(model, keys, fallback, primary_answers, fallback_answers, text_length) ==
    LET primary == _call_provider_api(model, keys, primary_answers, text_length)
        second == _call_provider_api(model, keys, fallback_answers, text_length)
    IN IF ~primary.raised THEN [attempts |-> <<Outcome(primary)>>] @@ primary
       ELSE [attempts |-> <<Outcome(primary), Outcome(second)>>] @@
            [second EXCEPT !.invoked = primary.invoked \o second.invoked]

_call_model_api(model, keys, fallback, primary_answers, fallback_answers, text_length) ==
    LET primary == _call_provider_api(model, keys, primary_answers, text_length)
        second == _call_provider_api(models["gpt-3.5-turbo"], keys,
                                     fallback_answers, text_length)
    IN IF ~primary.raised THEN [attempts |-> <<Outcome(primary)>>] @@ primary
       ELSE IF fallback
       THEN [attempts |-> <<Outcome(primary), Outcome(second)>>] @@
            [second EXCEPT !.invoked = primary.invoked \o second.invoked]
       ELSE [attempts |-> <<Outcome(primary)>>] @@ primary

\* Line 131.
savings_unclamped(gpt4_cost, actual_cost) == gpt4_cost - actual_cost

savings_of(gpt4_cost, actual_cost) == Max(0, gpt4_cost - actual_cost)

\* Lines 117-143: the response built from what the provider returned.
build_response(selected_model, input_tokens, response_content, latency) ==
    LET output_tokens == response_content.length \div 4
        actual_cost == _calculate_cost(selected_model, input_tokens,
                                       output_tokens)
        gpt4_cost == _calculate_cost(models["gpt-4"], input_tokens,
                                     output_tokens)
    IN RouterResponse(response_content, selected_model.name,
                      selected_model.provider, input_tokens, output_tokens,
                      actual_cost, savings_of(gpt4_cost, actual_cost), latency)

NoResponse == [model |-> "<none>"]

\* Lines 145-154 are reached only when _call_model_api has returned.
tracker_after_call_always(tracker, api, selected_model, response, timestamp) ==
    IF api.raised
    THEN track_request(tracker, selected_model.name, selected_model.provider,
                       0, 0, 0, 0, 0, timestamp)
    ELSE track_request(tracker, response.model, response.provider,
                       response.input_tokens, response.output_tokens,
                       response.cost, response.savings, response.latency,
                       timestamp)

\* Tracking only what the selected model's own provider answered.
tracker_after_call_primary_only(tracker, api, selected_model, response, timestamp) ==
    IF api.raised \/ Len(api.attempts) > 1 THEN tracker
    ELSE track_request(tracker, response.model, response.provider,
                       response.input_tokens, response.output_tokens,
                       response.cost, response.savings, response.latency,
                       timestamp)

tracker_after_call(tracker, api, selected_model, response, timestamp) ==
    IF api.raised THEN tracker
    ELSE track_request(tracker, response.model, response.provider,
                       response.input_tokens, response.output_tokens,
                       response.cost, response.savings, response.latency,
                       timestamp)

\* Lines 156-160.
cache_after_call(entries, cache_key, api, response, timestamp) ==
    IF api.raised THEN entries
    ELSE (cache_key :> [response |-> response, timestamp |-> timestamp])
         @@ entries

\* len(response_content) of the texts the providers return.
TextLengths == {40}

\* time.time() - start_time of a provider call, in clock ticks.
Latencies == {0, 1}

\* What the environment decides about a provider call: whether a provider
\* that is invoked answers, and the text it answers with.  A provider that is
\* not invoked decides nothing.
Answers(invoked) == IF invoked THEN BOOLEAN ELSE {FALSE}

Texts(answered) == IF answered THEN TextLengths ELSE {0}

(***************************************************************************)
(* Spec: one SmartRouter, called sequentially.                             *)
(***************************************************************************)
\* cache_ttl as the router is constructed with, in clock ticks.
CacheTTL == 2

\* The deployments: every key, every key but the fallback provider's, and
\* the fallback provider's key alone.
KeySets == {ModelProvider, ModelProvider \ {"openai"}, {"openai"}}

RouterStrategies == {"cost_optimized"}

Hints == {"auto", "claude-3-opus", "no-such-model"}

User(text) == [role |-> "user", content |-> text]

MessageLists ==
    {<<[role |-> "system", content |-> "Be brief."], User(q)>> :
        q \in QueryTexts \ {""}}

\* The rule of the specification's scenario.
RouterRules ==
    {RoutingRule("rule", [field |-> "task_type", value |-> "code"],
                 "gpt-4", 100)}

Init ==
    /\ sel_rules = <<>>
    /\ sel_call = NoCall
    /\ now = 0
    /\ strategy \in RouterStrategies
    /\ enable_fallback \in BOOLEAN
    /\ api_keys \in KeySets
    /\ cache_ttl = CacheTTL
    /\ custom_rules = <<>>
    /\ cache = <<>>
    /\ requests = <<>>
    /\ daily_costs = <<>>
    /\ model_usage = <<>>
    /\ total_savings = 0
    /\ last = NoCall
    /\ InitCallsIdle

configVars == <<strategy, enable_fallback, api_keys, cache_ttl>>
trackerVars == <<requests, daily_costs, model_usage, total_savings>>

\* Time passes between calls.
Tick ==
    /\ now < MaxTime
    /\ now' = now + 1
    /\ UNCHANGED <<custom_rules, cache, last>>
    /\ UNCHANGED <<configVars, trackerVars, selVars, callVars>>

add_rule(rule) ==
    /\ Len(custom_rules) < MaxRouterRules
    /\ custom_rules' = Append(custom_rules, rule)
    /\ UNCHANGED <<now, cache, last>>
    /\ UNCHANGED <<configVars, trackerVars, selVars, callVars>>

Called(query, hint) ==
    [called |-> TRUE, query |-> query, model |-> hint]

\* create(), lines 86-95: the cache answers.
create_cached(messages, hint) ==
    LET query == _extract_query(messages)
        cache_key == _generate_cache_key(query)
    IN /\ cache_hit(cache, cache_key, now, cache_ttl)
       /\ cache' = cache_after_hit(cache, cache_key, now)
       /\ last' = Called(query, hint) @@
                  [outcome |-> "response", cache_hit |-> TRUE,
                   invoked |-> <<>>,
                   response |-> cache[cache_key].response]
       /\ UNCHANGED <<now, custom_rules>>
       /\ UNCHANGED <<configVars, trackerVars, selVars, callVars>>

\* create(), lines 97-110: no cached answer and an explicit model name the
\* catalog does not hold.
create_unknown_model(messages, hint) ==
    LET query == _extract_query(messages)
        cache_key == _generate_cache_key(query)
    IN /\ ~cache_hit(cache, cache_key, now, cache_ttl)
       /\ hint # "auto"
       /\ hint \notin CatalogNames
       /\ last' = Called(query, hint) @@
                  [outcome |-> "error", cache_hit |-> FALSE,
                   invoked |-> <<>>, error |-> "UnknownModel"]
       /\ UNCHANGED <<now, custom_rules, cache>>
       /\ UNCHANGED <<configVars, trackerVars, selVars, callVars>>

\* create(), lines 145-162 and the exits by an exception before them.
create_commit(query, hint, selected_model, api, response, tracker, entries) ==
    /\ requests' = tracker.requests
    /\ daily_costs' = tracker.daily_costs
    /\ model_usage' = tracker.model_usage
    /\ total_savings' = tracker.total_savings
    /\ cache' = entries
    /\ last' = IF api.raised
               THEN Called(query, hint) @@
                    [outcome |-> "error", cache_hit |-> FALSE,
                     selected |-> selected_model.name,
                     attempts |-> api.attempts,
                     invoked |-> api.invoked, error |-> api.error]
               ELSE Called(query, hint) @@
                    [outcome |-> "response", cache_hit |-> FALSE,
                     selected |-> selected_model.name,
                     attempts |-> api.attempts,
                     invoked |-> api.invoked, response |-> response]

create_respond(query, hint, selected_model, api, response, latency) ==
    create_commit(query, hint, selected_model, api, response,
                  tracker_after_call(CostTracker(requests, daily_costs,
                                                 model_usage, total_savings),
                                     api, selected_model, response,
                                     now + latency),
                  cache_after_call(cache, _generate_cache_key(query), api,
                                   response, now + latency))

\* create(), lines 97-162: no cached answer; the provider of the resolved
\* model is called, which takes `latency` ticks.
create_routed(query, hint, selected_model, input_tokens, api, latency) ==
    /\ api.raised \/ Len(requests) < MaxRequests
    /\ now' = now + latency
    /\ create_respond(query, hint, selected_model, api,
                      IF api.raised THEN NoResponse
                      ELSE build_response(selected_model, input_tokens,
                                          api.content, latency),
                      latency)
    /\ UNCHANGED custom_rules
    /\ UNCHANGED <<configVars, selVars, callVars>>

create_selected(query, hint, selected_model, input_tokens) ==
    \E primary_answers \in Answers(selected_model.provider \in api_keys) :
    \E fallback_answers \in Answers(/\ ~primary_answers
                                    /\ enable_fallback
                                    /\ "openai" \in api_keys) :
    \E text_length \in Texts(primary_answers \/ fallback_answers) :
    \E latency \in {l \in Latencies : now + l <= MaxTime} :
        create_routed(query, hint, selected_model, input_tokens,
                      _call_model_api(selected_model, api_keys,
                                      enable_fallback, primary_answers,
                                      fallback_answers, text_length),
                      latency)

create_analyzed(query, hint, complexity) ==
    create_selected(query, hint,
                    IF hint = "auto"
                    THEN select_model(complexity, strategy, custom_rules)
                    ELSE models[hint],
                    complexity.token_count)

\* create() on a cache miss with a model the catalog resolves, under every
\* behaviour of the providers it turns to.
create_miss(messages, hint) ==
    /\ ~cache_hit(cache, _generate_cache_key(_extract_query(messages)), now,
                  cache_ttl)
    /\ hint = "auto" \/ hint \in CatalogNames
    /\ create_analyzed(_extract_query(messages), hint,
                       analyze(_extract_query(messages)))

Next ==
    \/ Tick
    \/ \E rule \in RouterRules : add_rule(rule)
    \/ \E messages \in MessageLists, hint \in Hints :
           \/ create_cached(messages, hint)
           \/ create_unknown_model(messages, hint)
           \/ create_miss(messages, hint)

Spec == Init /\ [][Next]_vars

(***************************************************************************)
(* SpecTracker: one CostTracker, called directly and sequentially.         *)
(***************************************************************************)
\* The requests tracked, amounts in 1e-6 dollars: the two of the tracker
\* scenario (costs 0.002 and 0.001, savings 0.008 and 0.012) and a short
\* request of cost 0.00002 and savings 0.00008.
TrackedRequests ==
    {[model |-> "gpt-3.5-turbo", provider |-> "openai", input_tokens |-> 50,
      output_tokens |-> 30, cost |-> 2000, savings |-> 8000,
      latency |-> 1],
     [model |-> "gpt-4o-mini", provider |-> "openai", input_tokens |-> 50,
      output_tokens |-> 30, cost |-> 1000, savings |-> 12000,
      latency |-> 2],
     [model |-> "gpt-3.5-turbo", provider |-> "openai", input_tokens |-> 7,
      output_tokens |-> 10, cost |-> 20, savings |-> 80,
      latency |-> 0]}

PeriodDays == {0, 1, 2}

InitTracker ==
    /\ sel_rules = <<>>
    /\ sel_call = NoCall
    /\ InitRouterIdle
    /\ InitCallsIdle

idleVars == <<strategy, enable_fallback, api_keys, cache_ttl, custom_rules,
              cache, last, an_call, threads>>

\* Time passes between calls.
TrTick ==
    /\ now < MaxTime
    /\ now' = now + 1
    /\ UNCHANGED <<analytics, trackerVars, selVars, idleVars>>

TrTrackRequest(r) ==
    LET tracker == track_request(CostTracker(requests, daily_costs,
                                             model_usage, total_savings),
                                 r.model, r.provider, r.input_tokens,
                                 r.output_tokens, r.cost, r.savings,
                                 r.latency, now)
    IN /\ Len(requests) < MaxRequests
       /\ requests' = tracker.requests
       /\ daily_costs' = tracker.daily_costs
       /\ model_usage' = tracker.model_usage
       /\ total_savings' = tracker.total_savings
       /\ analytics' = NoCall
       /\ UNCHANGED <<now, selVars, idleVars>>

\* `analytics` keeps the result of the call and the time it was made at.
TrGetAnalytics(period_days) ==
    LET before == CostTracker(requests, daily_costs, model_usage,
                              total_savings)
        tracker == tracker_after_analytics(before, now, period_days)
    IN /\ analytics' = [called |-> TRUE, period_days |-> period_days,
                        time |-> now,
                        result |-> get_analytics(before, now, period_days)]
       /\ requests' = tracker.requests
       /\ daily_costs' = tracker.daily_costs
       /\ model_usage' = tracker.model_usage
       /\ total_savings' = tracker.total_savings
       /\ UNCHANGED <<now, selVars, idleVars>>

\* SmartRouter.add_rule, which has no part in the tracker.
TrAddRule(rule) ==
    /\ Len(custom_rules) < MaxRouterRules
    /\ custom_rules' = Append(custom_rules, rule)
    /\ UNCHANGED <<now, analytics, trackerVars, selVars>>
    /\ UNCHANGED <<strategy, enable_fallback, api_keys, cache_ttl, cache, last,
                   an_call, threads>>

NextTracker ==
    \/ TrTick
    \/ \E r \in TrackedRequests : TrTrackRequest(r)
    \/ \E period_days \in PeriodDays : TrGetAnalytics(period_days)
    \/ \E rule \in RouterRules : TrAddRule(rule)

SpecTracker == InitTracker /\ [][NextTracker]_vars

(***************************************************************************)
(* SpecAnalyze: one QueryAnalyzer, called directly.                        *)
(***************************************************************************)
\* len(tokens) of the texts scored: none, few, and around and far above the
\* 500 tokens at which the token score is capped.
TokenCounts == {0, 1, 7, 499, 500, 501, 4000}

\* len(set(tokens)) of a text of token_count tokens.
UniqueCounts(token_count) ==
    IF token_count = 0 THEN {0}
    ELSE {1, (token_count + 1) \div 2, token_count}

\* What _detect_task_type returns.
TaskTypes == {task_patterns[i] : i \in DOMAIN task_patterns} \cup {"general"}

\* What _detect_required_capabilities returns for a text of the task type:
\* the capabilities of the task type, and those the text itself adds (an
\* arithmetic expression, more than 1000 characters, a format name), which
\* an empty text cannot add.
CapabilitySets(token_count, task_type) ==
    {_detect_required_capabilities("", task_type) \cup extra :
        extra \in IF token_count = 0 THEN {{}}
                  ELSE SUBSET {"mathematical_reasoning", "long_context",
                               "structured_output"}}

InitAnalyze ==
    /\ sel_rules = <<>>
    /\ sel_call = NoCall
    /\ InitRouterIdle
    /\ InitCallsIdle

\* analyze(query) of a text.
AnAnalyze(query) ==
    /\ an_call = NoCall
    /\ an_call' = [called |-> TRUE, query |-> query,
                   patterns |-> features(query).patterns,
                   result |-> analyze(query)]
    /\ UNCHANGED <<routerVars, selVars, analytics, threads>>

\* analyze() of a short text known by the categories whose patterns match it.
AnDetect(patterns) ==
    LET token_count == 7
        vocabulary_complexity == 10000
        task_type == detect_by_patterns(patterns)
        capabilities == _detect_required_capabilities("", task_type)
    IN /\ an_call = NoCall
       /\ an_call' =
              [called |-> TRUE, patterns |-> patterns,
               result |-> QueryComplexity(
                   token_count, vocabulary_complexity, task_type,
                   _estimate_output_tokens(task_type, token_count),
                   capabilities,
                   _calculate_complexity_score(token_count,
                       vocabulary_complexity, task_type, capabilities))]
       /\ UNCHANGED <<routerVars, selVars, analytics, threads>>

\* analyze() from line 80 on, for a text known by its token count, its
\* number of distinct tokens, its task type and its capabilities.
AnScore(token_count, unique_tokens, task_type, capabilities) ==
    LET vocabulary_complexity ==
            IF token_count > 0
            THEN (unique_tokens * 10000) \div token_count
            ELSE 0
    IN /\ an_call = NoCall
       /\ an_call' =
              [called |-> TRUE,
               result |-> QueryComplexity(
                   token_count, vocabulary_complexity, task_type,
                   _estimate_output_tokens(task_type, token_count),
                   capabilities,
                   _calculate_complexity_score(token_count,
                       vocabulary_complexity, task_type, capabilities))]
       /\ UNCHANGED <<routerVars, selVars, analytics, threads>>

NextAnalyze ==
    \/ \E query \in QueryTexts : AnAnalyze(query)
    \/ \E patterns \in SUBSET (TaskTypes \ {"general"}) : AnDetect(patterns)
    \/ \E token_count \in TokenCounts, task_type \in TaskTypes :
       \E unique_tokens \in UniqueCounts(token_count) :
       \E capabilities \in CapabilitySets(token_count, task_type) :
           AnScore(token_count, unique_tokens, task_type, capabilities)

SpecAnalyze == InitAnalyze /\ [][NextAnalyze]_vars

(***************************************************************************)
(* SpecThreads: threads that share one SmartRouter and its CostTracker.    *)
(* Each thread makes one call: create(), followed from the point where the *)
(* provider has answered and the response is built, or get_analytics().    *)
(* No statement of either takes a lock, so another thread may run between  *)
(* any two accesses to self.requests, self.daily_costs, self.model_usage,  *)
(* self.total_savings and self.cache; `x += v` is a read of x followed by  *)
(* a write of x.                                                           *)
(***************************************************************************)
ThreadIds == 1 .. MaxThreads

InitThreads ==
    /\ sel_rules = <<>>
    /\ sel_call = NoCall
    /\ now = 0
    /\ strategy = "cost_optimized"
    /\ enable_fallback = TRUE
    /\ api_keys = ModelProvider
    /\ cache_ttl = CacheTTL
    /\ custom_rules = <<>>
    /\ cache = <<>>
    /\ requests = <<>>
    /\ daily_costs = <<>>
    /\ model_usage = <<>>
    /\ total_savings = 0
    /\ last = NoCall
    /\ analytics = NoCall
    /\ an_call = NoCall
    /\ threads = [t \in ThreadIds |-> [pc |-> "idle"]]

threadIdleVars == <<now, strategy, enable_fallback, api_keys, cache_ttl,
                    custom_rules, last, sel_rules, sel_call, analytics,
                    an_call>>

\* Thread t goes on to `pc` with its locals changed to `locals`.
Goto(t, pc, locals) ==
    threads' = [threads EXCEPT ![t] = [pc |-> pc] @@ locals @@ threads[t]]

\* create(), lines 86-143: the cache has no fresh entry for the query, the
\* provider answers and the response r is built (amounts in 1e-6 dollars).
ThCreate(t, query, r) ==
    /\ threads[t].pc = "idle"
    /\ ~cache_hit(cache, _generate_cache_key(query), now, cache_ttl)
    /\ Goto(t, "append",
            [call |-> "create", query |-> query, timestamp |-> now,
             response |-> RouterResponse([by |-> r.model, length |-> 40],
                                         r.model, r.provider, r.input_tokens,
                                         r.output_tokens, r.cost, r.savings,
                                         r.latency)])
    /\ UNCHANGED <<trackerVars, cache, threadIdleVars>>

\* track_request, line 47: self.requests.append(request_data).
ThAppend(t) ==
    LET r == threads[t].response
    IN /\ threads[t].pc = "append"
       /\ requests' = Append(requests,
              [timestamp |-> threads[t].timestamp, model |-> r.model,
               provider |-> r.provider, input_tokens |-> r.input_tokens,
               output_tokens |-> r.output_tokens, cost |-> r.cost,
               savings |-> r.savings, latency |-> r.latency])
       /\ Goto(t, "daily_read", <<>>)
       /\ UNCHANGED <<daily_costs, model_usage, total_savings, cache,
                      threadIdleVars>>

\* Line 48, the read of self.daily_costs[timestamp.date()]: a defaultdict
\* stores 0.0 under a key it does not have.
ThDailyRead(t) ==
    LET day == date(threads[t].timestamp)
    IN /\ threads[t].pc = "daily_read"
       /\ daily_costs' = DefaultAdd(daily_costs, day, 0)
       /\ Goto(t, "daily_write", [tmp |-> daily_costs'[day]])
       /\ UNCHANGED <<requests, model_usage, total_savings, cache,
                      threadIdleVars>>

\* Line 48, the write of self.daily_costs[timestamp.date()].
ThDailyWrite(t) ==
    LET day == date(threads[t].timestamp)
    IN /\ threads[t].pc = "daily_write"
       /\ daily_costs' = (day :> (threads[t].tmp + threads[t].response.cost))
                             @@ daily_costs
       /\ Goto(t, "usage_read", <<>>)
       /\ UNCHANGED <<requests, model_usage, total_savings, cache,
                      threadIdleVars>>

\* Line 49, the read of self.model_usage[model].
ThUsageRead(t) ==
    LET model == threads[t].response.model
    IN /\ threads[t].pc = "usage_read"
       /\ model_usage' = DefaultAdd(model_usage, model, 0)
       /\ Goto(t, "usage_write", [tmp |-> model_usage'[model]])
       /\ UNCHANGED <<requests, daily_costs, total_savings, cache,
                      threadIdleVars>>

\* Line 49, the write of self.model_usage[model].
ThUsageWrite(t) ==
    LET model == threads[t].response.model
    IN /\ threads[t].pc = "usage_write"
       /\ model_usage' = (model :> (threads[t].tmp + 1)) @@ model_usage
       /\ Goto(t, "savings_read", <<>>)
       /\ UNCHANGED <<requests, daily_costs, total_savings, cache,
                      threadIdleVars>>

\* Line 50, the read of self.total_savings.
ThSavingsRead(t) ==
    /\ threads[t].pc = "savings_read"
    /\ Goto(t, "savings_write", [tmp |-> total_savings])
    /\ UNCHANGED <<trackerVars, cache, threadIdleVars>>

\* Line 50, the write of self.total_savings.
ThSavingsWrite(t) ==
    /\ threads[t].pc = "savings_write"
    /\ total_savings' = threads[t].tmp + threads[t].response.savings
    /\ Goto(t, "cache_write", <<>>)
    /\ UNCHANGED <<requests, daily_costs, model_usage, cache, threadIdleVars>>

\* create(), lines 156-162: the cache entry is stored and create() returns.
ThCacheWrite(t) ==
    /\ threads[t].pc = "cache_write"
    /\ cache' = (_generate_cache_key(threads[t].query) :>
                    [response |-> threads[t].response, timestamp |-> now])
                 @@ cache
    /\ Goto(t, "done", <<>>)
    /\ UNCHANGED <<trackerVars, threadIdleVars>>

\* get_analytics, lines 55-56: self.requests is read.
ThGetAnalytics(t, period_days) ==
    /\ threads[t].pc = "idle"
    /\ Goto(t, "aggregate",
            [call |-> "get_analytics", period_days |-> period_days,
             recent_requests |-> requests])
    /\ UNCHANGED <<trackerVars, cache, threadIdleVars>>

\* get_analytics, lines 58-88: the result is built from the requests read
\* before and from self.daily_costs as it is now.
ThAggregate(t) ==
    /\ threads[t].pc = "aggregate"
    /\ Goto(t, "done",
            [result |-> get_analytics(
                            CostTracker(threads[t].recent_requests,
                                        daily_costs, model_usage,
                                        total_savings),
                            now, threads[t].period_days)])
    /\ UNCHANGED <<trackerVars, cache, threadIdleVars>>

NextThreads ==
    \E t \in ThreadIds :
        \/ \E query \in QueryTexts \ {""}, r \in TrackedRequests :
               ThCreate(t, query, r)
        \/ ThAppend(t)
        \/ ThDailyRead(t)
        \/ ThDailyWrite(t)
        \/ ThUsageRead(t)
        \/ ThUsageWrite(t)
        \/ ThSavingsRead(t)
        \/ ThSavingsWrite(t)
        \/ ThCacheWrite(t)
        \/ ThGetAnalytics(t, 1)
        \/ ThAggregate(t)

SpecThreads == InitThreads /\ [][NextThreads]_vars

(***************************************************************************)
(* SpecCost: a query is analysed, a model is selected for it under         *)
(* cost_optimized with no rule, and the provider answers with a text of    *)
(* some number of tokens (create(), lines 97-123, without the cache).      *)
(***************************************************************************)
\* len(tokens) of the queries: one word ("define"), the seven tokens of the
\* capital-of-France question, and a question of a hundred tokens.
CostTokenCounts == {1, 7, 100}

\* len(response_content) // 4: an answer of under four characters ("Yes"),
\* of one word ("Paris"), of a sentence, of a paragraph.
OutputTokens == {0, 1, 10, 200}

InitCost ==
    /\ sel_rules = <<>>
    /\ sel_call = NoCall
    /\ InitRouterIdle
    /\ InitCallsIdle

CostSelect(token_count, unique_tokens, task_type, capabilities, output_tokens) ==
    LET vocabulary_complexity == (unique_tokens * 10000) \div token_count
        complexity ==
            QueryComplexity(
                token_count, vocabulary_complexity, task_type,
                _estimate_output_tokens(task_type, token_count),
                capabilities,
                _calculate_complexity_score(token_count,
                    vocabulary_complexity, task_type, capabilities))
    IN /\ sel_call = NoCall
       /\ sel_call' = [called |-> TRUE, complexity |-> complexity,
                       strategy |-> "cost_optimized",
                       output_tokens |-> output_tokens,
                       result |-> select_model(complexity, "cost_optimized",
                                               sel_rules)]
       /\ UNCHANGED sel_rules
       /\ UNCHANGED routerVars
       /\ UNCHANGED callVars

NextCost ==
    \E token_count \in CostTokenCounts, task_type \in TaskTypes :
    \E unique_tokens \in UniqueCounts(token_count) :
    \E capabilities \in CapabilitySets(token_count, task_type) :
    \E output_tokens \in OutputTokens :
        CostSelect(token_count, unique_tokens, task_type, capabilities,
                   output_tokens)

SpecCost == InitCost /\ [][NextCost]_vars

(***************************************************************************)
(* Claims about select_model (checked under SpecSelect).                   *)
(***************************************************************************)
\* The rules of the list whose condition holds and whose model is in the catalog.
Matching(rules, complexity) ==
    {i \in DOMAIN rules : /\ condition(rules[i], complexity)
                          /\ rules[i].model \in CatalogNames}

\* Those of them that have the numerically highest priority.
TopMatching(rules, complexity) ==
    {i \in Matching(rules, complexity) :
        \A j \in Matching(rules, complexity) :
            rules[j].priority <= rules[i].priority}

Permutations_of(rules) ==
    {[i \in DOMAIN rules |-> rules[f[i]]] :
        f \in {g \in [DOMAIN rules -> DOMAIN rules] :
                  \A a, b \in DOMAIN rules : a # b => g[a] # g[b]}}

\* C1 as stated: whenever some rule matches with a catalog model, the result
\* is the target of the matching rule of highest priority, whichever rule of
\* the list that is, i.e. of every matching rule that has the highest priority.
C1_HighestPriorityWins ==
    sel_call.called =>
        \A i \in TopMatching(sel_rules, sel_call.complexity) :
            sel_call.result = models[sel_rules[i].model]

\* C1 amended: when the matching rules of highest priority all name one model
\* (in particular when the highest priority is not tied), the result is that
\* model, and it is the result for every reordering of the list.
C1_HighestPriorityWinsUntied ==
    sel_call.called =>
        LET top == TopMatching(sel_rules, sel_call.complexity)
        IN (/\ top # {}
            /\ \A i, j \in top : sel_rules[i].model = sel_rules[j].model)
           => /\ \A i \in top : sel_call.result = models[sel_rules[i].model]
              /\ \A p \in Permutations_of(sel_rules) :
                     select_model(sel_call.complexity, sel_call.strategy, p)
                         = sel_call.result

\* C1 witness: the lower-priority matching rule comes first in the list and
\* names another model, and the higher-priority rule's model is returned.
C1_Witness ==
    /\ sel_call.called
    /\ Len(sel_rules) = 2
    /\ Matching(sel_rules, sel_call.complexity) = {1, 2}
    /\ sel_rules[1].priority < sel_rules[2].priority
    /\ sel_rules[1].model # sel_rules[2].model
    /\ sel_call.result = models[sel_rules[2].model]

\* C2: under every strategy, if a rule matches and names a catalog model, the
\* result is the model of such a rule, whatever the strategy alone would pick.
C2_RulesBeatStrategy ==
    sel_call.called =>
        (Matching(sel_rules, sel_call.complexity) # {}
            => \E i \in Matching(sel_rules, sel_call.complexity) :
                   sel_call.result = models[sel_rules[i].model])

\* C2 witness: the scenario of the specification: a rule task_type == "code"
\* -> gpt-4 with priority 100 under cost_optimized, on a descriptor for which
\* the cost ladder alone picks another model.
C2_Witness ==
    /\ sel_call.called
    /\ sel_call.strategy = "cost_optimized"
    /\ sel_call.complexity.task_type = "code"
    /\ sel_rules = <<RoutingRule("rule", [field |-> "task_type", value |-> "code"],
                                 "gpt-4", 100)>>
    /\ _select_cost_optimized(sel_call.complexity) # models["gpt-4"]
    /\ sel_call.result = models["gpt-4"]

\* C3: a rule naming a model outside the catalog has no effect: the result is
\* a catalog model (no error), chosen among the matching rules that name a
\* catalog model by priority, and by the strategy when there is none.
C3_UnknownModelRuleSkipped ==
    sel_call.called =>
        LET top == TopMatching(sel_rules, sel_call.complexity)
        IN /\ sel_call.result.name \in CatalogNames
           /\ top # {} => \E i \in top :
                              sel_call.result = models[sel_rules[i].model]
           /\ top = {} => sel_call.result =
                              strategy_dispatch(sel_call.complexity,
                                                sel_call.strategy)

\* C3 witness: the rule of highest priority matches and names an unknown
\* model, a rule of lower priority matches and names a catalog model, and the
\* latter's model is returned.
C3_Witness ==
    /\ sel_call.called
    /\ \E i, j \in DOMAIN sel_rules :
          /\ condition(sel_rules[i], sel_call.complexity)
          /\ sel_rules[i].model \notin CatalogNames
          /\ condition(sel_rules[j], sel_call.complexity)
          /\ sel_rules[j].model \in CatalogNames
          /\ sel_rules[j].priority < sel_rules[i].priority
          /\ sel_call.result = models[sel_rules[j].model]

\* C5: select_model always returns an entry of the catalog.
C5_SelectionTotal ==
    sel_call.called =>
        \E n \in CatalogNames : sel_call.result = models[n]

\* C5 witness: a strategy name outside the three known ones, and the only
\* matching rule names an unknown model; a catalog model is returned.
C5_Witness ==
    /\ sel_call.called
    /\ sel_call.strategy \notin StrategyNames
    /\ Matching(sel_rules, sel_call.complexity) = {}
    /\ \E i \in DOMAIN sel_rules : condition(sel_rules[i], sel_call.complexity)
    /\ sel_call.result.name \in CatalogNames

\* m2 is cheaper than m1: no price of m2 is above m1's and one is below.
Cheaper(m2, m1) ==
    /\ m2.cost_per_1k_input <= m1.cost_per_1k_input
    /\ m2.cost_per_1k_output <= m1.cost_per_1k_output
    /\ \/ m2.cost_per_1k_input < m1.cost_per_1k_input
       \/ m2.cost_per_1k_output < m1.cost_per_1k_output

\* C6: under cost_optimized with no matching rule, the model selected for a
\* score is never cheaper than the model selected for a lower score.
C6_CostLadderMonotonic ==
    (/\ sel_call.called
     /\ sel_call.strategy = "cost_optimized"
     /\ Matching(sel_rules, sel_call.complexity) = {})
    => \A s1 \in SelScores :
           s1 < sel_call.complexity.complexity_score
           => ~Cheaper(sel_call.result,
                       select_model([sel_call.complexity EXCEPT
                                         !.complexity_score = s1],
                                    "cost_optimized", sel_rules))

(***************************************************************************)
(* Claims about SmartRouter.create (checked under Spec).                   *)
(***************************************************************************)
\* The entry for the query is there and younger than cache_ttl.
Fresh(entries, query, time) ==
    /\ <<"hash", query>> \in DOMAIN entries
    /\ time - entries[<<"hash", query>>].timestamp < cache_ttl

\* The step is a create() call that `last` describes in the next state.
IsCall ==
    \/ last' # last
    \/ cache' # cache
    \/ <<requests, daily_costs, model_usage, total_savings>>'
           # <<requests, daily_costs, model_usage, total_savings>>

\* C4: a create() call with an explicit model name that is not in the catalog
\* ends with the unknown-model error and returns no response.
C4_UnknownModelFails ==
    (last.called /\ last.model # "auto" /\ last.model \notin CatalogNames)
        => last.outcome = "error" /\ last.error = "UnknownModel"

BaselineCost(r) ==
    r.input_tokens * models["gpt-4"].cost_per_1k_input
        + r.output_tokens * models["gpt-4"].cost_per_1k_output

SavingsClamped(r) ==
    /\ r.cost = r.input_tokens * models[r.model].cost_per_1k_input
                    + r.output_tokens * models[r.model].cost_per_1k_output
    /\ r.savings = IF BaselineCost(r) > r.cost THEN BaselineCost(r) - r.cost
                   ELSE 0
    /\ r.savings >= 0
    /\ (r.model = "gpt-4" \/ r.cost >= BaselineCost(r)) => r.savings = 0

\* C7: the savings of every returned response and of every tracked record is
\* max(0, cost of the same token counts on gpt-4 - actual cost): never
\* negative, and zero when the model is gpt-4 or costs more than gpt-4.
C7_SavingsNonNegative ==
    /\ (last.called /\ last.outcome = "response")
           => SavingsClamped(last.response)
    /\ \A i \in DOMAIN requests : SavingsClamped(requests[i])
    /\ (last.called /\ last.outcome = "response" /\ ~last.cache_hit)
           => /\ requests # <<>>
              /\ requests[Len(requests)].savings = last.response.savings
              /\ requests[Len(requests)].cost = last.response.cost

\* C7 witness: claude-3-opus answers with more output than input tokens, which
\* costs more than gpt-4; the response and its record carry savings 0.
C7_Witness ==
    /\ last.called
    /\ last.outcome = "response"
    /\ ~last.cache_hit
    /\ last.response.model = "claude-3-opus"
    /\ last.response.cost > BaselineCost(last.response)
    /\ last.response.savings = 0
    /\ requests[Len(requests)].model = "claude-3-opus"
    /\ requests[Len(requests)].savings = 0

\* C8: a call for a query whose entry is younger than cache_ttl returns the
\* stored response and invokes no provider; a call for a query with no entry,
\* or with one of age >= cache_ttl, is a miss: a response comes from a
\* provider invocation and is stored with the time of its insertion.
C8_CacheRoundTrip ==
    [][IsCall =>
          IF Fresh(cache, last'.query, now)
          THEN /\ last'.outcome = "response"
               /\ last'.cache_hit
               /\ last'.invoked = <<>>
               /\ last'.response = cache[<<"hash", last'.query>>].response
          ELSE /\ ~last'.cache_hit
               /\ last'.outcome = "response"
                      => /\ last'.invoked # <<>>
                         /\ <<"hash", last'.query>> \in DOMAIN cache'
                         /\ cache'[<<"hash", last'.query>>] =
                                [response |-> last'.response,
                                 timestamp |-> now']
    ]_vars

\* C8 witness: the query was answered by a provider twice, the second time
\* cache_ttl or more after the first, and the last call for it is answered
\* from the cache with the stored response.
C8_Witness ==
    /\ last.called
    /\ last.cache_hit
    /\ Len(requests) = 2
    /\ requests[1].input_tokens = features(last.query).tokens
    /\ requests[2].input_tokens = features(last.query).tokens
    /\ requests[2].timestamp - requests[1].timestamp >= cache_ttl
    /\ last.response = cache[<<"hash", last.query>>].response

\* C9: an entry stays as it was stored, timestamp included, until a call for
\* its query at age >= cache_ttl replaces it: a hit changes nothing in the
\* cache, and a lookup at age >= cache_ttl is a miss.
C9_NoSlidingExpiration ==
    [][/\ \A k \in DOMAIN cache :
              /\ k \in DOMAIN cache'
              /\ cache'[k] # cache[k]
                     => /\ now - cache[k].timestamp >= cache_ttl
                        /\ last'.called
                        /\ ~last'.cache_hit
                        /\ k = <<"hash", last'.query>>
       /\ (IsCall /\ last'.cache_hit) => cache' = cache
       /\ (/\ IsCall
           /\ <<"hash", last'.query>> \in DOMAIN cache
           /\ now >= cache[<<"hash", last'.query>>].timestamp + cache_ttl)
              => ~last'.cache_hit
    ]_vars

\* C9 witness: a hit at the last moment before the entry expires; the
\* entry's timestamp is still the time its record was tracked.
C9_Witness ==
    /\ last.called
    /\ last.cache_hit
    /\ now - cache[<<"hash", last.query>>].timestamp = cache_ttl - 1
    /\ cache_ttl > 1
    /\ Len(requests) = 1
    /\ requests[1].timestamp = cache[<<"hash", last.query>>].timestamp

\* C10: a call that ends in an error leaves the cache and the tracker (log,
\* daily costs, model usage, total savings) as they were.
C10_FailureLeavesStateUntouched ==
    [][(last'.called /\ last'.outcome = "error")
          => UNCHANGED <<cache, requests, daily_costs, model_usage,
                         total_savings>>
    ]_vars

\* C10 witness: the provider failed, the fallback failed too, and the cache
\* and the tracker hold what earlier calls left there.
C10_Witness ==
    /\ last.called
    /\ last.outcome = "error"
    /\ Len(last.invoked) = 2
    /\ cache # <<>>
    /\ requests # <<>>

(***************************************************************************)
(* Claims about the provider call and its fallback (checked under Spec).   *)
(***************************************************************************)
\* The last call reached _call_model_api.
Attempted == last.called /\ "attempts" \in DOMAIN last

\* The provider of the selected model was invoked and failed.
PrimaryFailed == Attempted /\ last.attempts[1] = "ProviderInvocationFailure"

\* The outcome of the call is how the fallback attempt ended.
OutcomeIsFallbacks ==
    IF last.attempts[2] = "ok"
    THEN last.outcome = "response"
    ELSE last.outcome = "error" /\ last.error = last.attempts[2]

\* C11 (as stated): a create() call makes at most two provider invocations;
\* when the invocation of the selected model's provider fails and
\* enable_fallback is true, exactly one further invocation is made, of
\* gpt-3.5-turbo, and its result or error is the outcome of the call; when
\* enable_fallback is false there is no second invocation and the primary
\* error is raised.
C11_FallbackProtocol ==
    Attempted =>
        /\ Len(last.invoked) <= 2
        /\ (PrimaryFailed /\ enable_fallback) =>
               /\ Len(last.invoked) = 2
               /\ last.invoked[2] = "gpt-3.5-turbo"
               /\ OutcomeIsFallbacks
        /\ (PrimaryFailed /\ ~enable_fallback) =>
               /\ Len(last.invoked) = 1
               /\ last.outcome = "error"
               /\ last.error = "ProviderInvocationFailure"

\* C11 (amended): as above, but the further invocation of gpt-3.5-turbo is
\* made exactly when an OpenAI key is configured; without one the fallback
\* attempt ends with the missing-credential error before any invocation,
\* and that error is the outcome of the call.
C11_FallbackProtocolWithKey ==
    Attempted =>
        /\ Len(last.invoked) <= 2
        /\ (PrimaryFailed /\ enable_fallback) =>
               /\ Len(last.attempts) = 2
               /\ OutcomeIsFallbacks
               /\ IF "openai" \in api_keys
                  THEN /\ Len(last.invoked) = 2
                       /\ last.invoked[2] = "gpt-3.5-turbo"
                  ELSE /\ Len(last.invoked) = 1
                       /\ last.attempts[2] = "MissingCredential"
        /\ (PrimaryFailed /\ ~enable_fallback) =>
               /\ Len(last.invoked) = 1
               /\ last.outcome = "error"
               /\ last.error = "ProviderInvocationFailure"

\* The provider of claude-3-opus failed and gpt-3.5-turbo answered.
C11_Witness ==
    /\ PrimaryFailed
    /\ enable_fallback
    /\ last.invoked = <<"claude-3-opus", "gpt-3.5-turbo">>
    /\ last.outcome = "response"

\* C12: when the invocation of the selected model's provider fails and the
\* fallback invocation succeeds, the returned response, the tracked record
\* and the cached entry name gpt-3.5-turbo and its provider, and cost and
\* savings are computed at gpt-3.5-turbo's prices.
C12_FallbackAttribution ==
    (PrimaryFailed /\ Len(last.attempts) = 2 /\ last.attempts[2] = "ok") =>
        LET fallback_model == models["gpt-3.5-turbo"]
            response == last.response
            record == requests[Len(requests)]
            cost == _calculate_cost(fallback_model, response.input_tokens,
                                    response.output_tokens)
        IN /\ response.model = fallback_model.name
           /\ response.provider = fallback_model.provider
           /\ response.cost = cost
           /\ response.savings = Max(0, BaselineCost(response) - cost)
           /\ record.model = fallback_model.name
           /\ record.provider = fallback_model.provider
           /\ record.cost = cost
           /\ cache[_generate_cache_key(last.query)].response = response

\* C13: when no API key is configured for the provider of the selected
\* model, the call ends with the missing-credential error, with fallback
\* enabled or not, and no provider is invoked.
C13_MissingCredentialFatal ==
    (Attempted /\ models[last.selected].provider \notin api_keys) =>
        /\ last.outcome = "error"
        /\ last.error = "MissingCredential"
        /\ last.invoked = <<>>

(***************************************************************************)
(* Claim about the strategy name (checked under SpecSelect).               *)
(***************************************************************************)
\* C14: select_model called with a strategy name outside cost_optimized,
\* quality_first and balanced, and no matching rule, ends in an error: it
\* returns no model of the catalog.
C14_UnknownStrategyIsError ==
    (/\ sel_call.called
     /\ sel_call.strategy \notin StrategyNames
     /\ Matching(sel_rules, sel_call.complexity) = {}) =>
        sel_call.result.name \notin CatalogNames

(***************************************************************************)
(* Claims about get_analytics (checked under SpecTracker).                 *)
(***************************************************************************)
\* The records of the window of the last get_analytics call.
InWindow ==
    SelectSeq(requests,
              LAMBDA r : r.timestamp > analytics.time
                                         - analytics.period_days * TicksPerDay)

\* C15: get_analytics reports the number of records of the window, the sum
\* of their costs and the sum of their savings.
C15_AnalyticsAggregates ==
    analytics.called =>
        /\ analytics.result.total_requests = Len(InWindow)
        /\ analytics.result.total_cost =
               Sum([i \in DOMAIN InWindow |-> InWindow[i].cost])
        /\ analytics.result.total_savings =
               Sum([i \in DOMAIN InWindow |-> InWindow[i].savings])

\* C16: for every window, an empty one included, the result of get_analytics
\* has a cost_reduction_percentage, equal to
\* total_savings / (total_cost + total_savings) * 100 (to two decimals) and
\* to 0 when total_cost + total_savings is 0.
C16_CostReductionPercentage ==
    analytics.called =>
        LET cost == Sum([i \in DOMAIN InWindow |-> InWindow[i].cost])
            savings == Sum([i \in DOMAIN InWindow |-> InWindow[i].savings])
        IN /\ "cost_reduction_percentage" \in DOMAIN analytics.result
           /\ analytics.result.cost_reduction_percentage =
                  IF cost + savings = 0 THEN 0
                  ELSE RoundDiv(savings * 10000, cost + savings)

\* C17: the daily_costs of the result of get_analytics has exactly the dates
\* of the records of the window, each with the sum of the costs of the
\* records of the window of that date (to four decimals).
C17_DailyBreakdownInWindow ==
    analytics.called =>
        LET days == {date(InWindow[i].timestamp) : i \in DOMAIN InWindow}
            OnDay(d) == SelectSeq(InWindow, LAMBDA r : date(r.timestamp) = d)
        IN analytics.result.daily_costs =
               [k \in {str(d) : d \in days} |->
                   round4(Sum([i \in DOMAIN OnDay(k[2]) |->
                                  OnDay(k[2])[i].cost]))]

RECURSIVE Replay(_)
Replay(records) ==
    IF records = <<>> THEN CostTracker(<<>>, <<>>, <<>>, 0)
    ELSE LET r == records[Len(records)]
         IN track_request(Replay(SubSeq(records, 1, Len(records) - 1)),
                          r.model, r.provider, r.input_tokens,
                          r.output_tokens, r.cost, r.savings, r.latency,
                          r.timestamp)

\* The records of the log at the indices of S, in log order.
RECURSIVE Pick(_, _)
Pick(records, S) ==
    IF records = <<>> THEN <<>>
    ELSE Pick(SubSeq(records, 1, Len(records) - 1), S)
         \o (IF Len(records) \in S THEN <<records[Len(records)]>> ELSE <<>>)

\* C19: the result of every get_analytics call is the result get_analytics
\* has on the tracker left by some of the track_request calls, applied one
\* after the other: no partly applied record is observed.
C19_AnalyticsSerializable ==
    \A t \in DOMAIN threads :
        (threads[t].pc = "done" /\ threads[t].call = "get_analytics") =>
            \E S \in SUBSET DOMAIN requests :
                threads[t].result =
                    get_analytics(Replay(Pick(requests, S)), now,
                                  threads[t].period_days)

\* C20: once every thread has returned, the tracker holds one record for
\* each create() call, its daily costs, model counts and total savings are
\* the sums over these records, and the cache holds a complete entry for
\* each query requested.
C20_UpdatesSerializable ==
    (\A t \in DOMAIN threads : threads[t].pc = "done") =>
        LET writers == {t \in DOMAIN threads : threads[t].call = "create"}
        IN /\ Len(requests) = Cardinality(writers)
           /\ CostTracker(requests, daily_costs, model_usage, total_savings)
                  = Replay(requests)
           /\ \A t \in writers :
                  LET cache_key == _generate_cache_key(threads[t].query)
                  IN /\ cache_key \in DOMAIN cache
                     /\ \E u \in writers :
                            cache[cache_key] =
                                [response |-> threads[u].response,
                                 timestamp |-> threads[u].timestamp]

(***************************************************************************)
(* Claim about the cheapest model (checked under SpecCost).                *)
(***************************************************************************)
\* The catalog models that declare the general capability.
GeneralModels == {n \in CatalogNames : "general" \in models[n].capabilities}

\* C21: under cost_optimized with no matching rule, the model selected for
\* a query of complexity score below 0.3 is a general model, and no general
\* model of the catalog costs less for the input and output token counts of
\* the request.
C21_LowestCostGeneralModel ==
    (sel_call.called /\ sel_call.complexity.complexity_score < 3000) =>
        /\ sel_call.result.name \in GeneralModels
        /\ \A n \in GeneralModels :
               _calculate_cost(models[n], sel_call.complexity.token_count,
                               sel_call.output_tokens)
               >= _calculate_cost(sel_call.result,
                                  sel_call.complexity.token_count,
                                  sel_call.output_tokens)

\* C22 (as stated): get_analytics changes neither the log, nor the per-date
\* table and its key set, nor the usage counts, nor the savings accumulator,
\* and a call that follows another call of the same window with no
\* track_request in between returns the same aggregate.
C22_PureReadSameAggregate ==
    [][\A period_days \in PeriodDays :
          TrGetAnalytics(period_days) =>
              /\ UNCHANGED trackerVars
              /\ (analytics.called /\ analytics.period_days = period_days)
                     => analytics'.result = analytics.result]_vars

\* C22 (amended): get_analytics changes nothing of the tracker, and a call that
\* follows another call of the same window returns the same aggregate when no
\* track_request came in between and the clock reads the same at both calls.
C22_PureReadSameAggregateSameClock ==
    [][\A period_days \in PeriodDays :
          TrGetAnalytics(period_days) =>
              /\ UNCHANGED trackerVars
              /\ (/\ analytics.called
                  /\ analytics.period_days = period_days
                  /\ analytics.time = now)
                     => analytics'.result = analytics.result]_vars

\* An aggregate over a non-empty window has been returned by a call on a
\* tracker whose tables are populated.
C22_Witness ==
    /\ analytics.called
    /\ analytics.result.total_requests >= 1
    /\ DOMAIN daily_costs # {}
    /\ DOMAIN model_usage # {}

\* C23: the usage log is append-only: in every step its length does not
\* decrease and every record in it keeps its position and its field values.
C23_LogAppendOnly ==
    [][/\ Len(requests') >= Len(requests)
       /\ \A i \in DOMAIN requests : requests'[i] = requests[i]]_vars

\* An aggregation has left records out of its window while the log holds them.
C23_Witness ==
    /\ analytics.called
    /\ Len(requests) = MaxRequests
    /\ analytics.result.total_requests < Len(requests)

\* The order in which the categories are tried.
TaskOrder == <<"simple_qa", "summarization", "code", "analysis", "creative",
               "math", "reasoning">>

C25_BalancedOverrides ==
    (/\ sel_call.called
     /\ sel_call.strategy = "balanced"
     /\ Matching(sel_rules, sel_call.complexity) = {})
    => LET caps == sel_call.complexity.required_capabilities
           score == sel_call.complexity.complexity_score
           name == sel_call.result.name
       IN /\ "code_generation" \in caps =>
                 name = IF score > 7000 THEN "gpt-4" ELSE "gpt-3.5-turbo"
          /\ ("code_generation" \notin caps /\ "long_context" \in caps) =>
                 name = "claude-3-haiku"
          /\ (/\ "code_generation" \notin caps
              /\ "long_context" \notin caps
              /\ "mathematical_reasoning" \in caps) =>
                 name = IF score > 6000 THEN "gpt-4" ELSE "gemini-pro"
          /\ (caps \cap {"code_generation", "long_context",
                         "mathematical_reasoning"} = {}) =>
                 /\ score < 4000 => name = "claude-3-haiku"
                 /\ (score >= 4000 /\ score < 7000) => name = "gpt-3.5-turbo"
                 /\ score >= 7000 => name = "gpt-4"

\* A query that requires all three capabilities with a score above 0.7 was
\* routed by the code_generation override.
C25_Witness ==
    /\ sel_call.called
    /\ sel_call.strategy = "balanced"
    /\ Matching(sel_rules, sel_call.complexity) = {}
    /\ sel_call.complexity.required_capabilities =
           {"code_generation", "long_context", "mathematical_reasoning"}
    /\ sel_call.complexity.complexity_score = 7001
    /\ sel_call.result.name = "gpt-4"

\* C26: when several matching rules with catalog models share the highest
\* priority, the result is the model of the one added first.
C26_TiesByInsertionOrder ==
    sel_call.called =>
        LET top == TopMatching(sel_rules, sel_call.complexity)
        IN top # {} =>
               \E i \in top :
                   /\ \A j \in top : i <= j
                   /\ sel_call.result = models[sel_rules[i].model]

\* Two matching rules of one priority name different catalog models, and the
\* model of the first was returned.
C26_Witness ==
    /\ sel_call.called
    /\ Len(sel_rules) = 2
    /\ TopMatching(sel_rules, sel_call.complexity) = {1, 2}
    /\ sel_rules[1].model # sel_rules[2].model
    /\ sel_call.result = models[sel_rules[1].model]

\* C27: the tracker gains exactly one record in a create() call that returns
\* a response produced by a provider invocation, of the selected model or of
\* the fallback, and none in any other step: a call answered from the cache
\* and a call that raises add no record.  With the empty tracker of a new
\* router, the number of records is then the number of such calls.
\* A create() call shows in `last`, and in the cache entry it writes when a
\* provider has answered it.
C27_RecordPerProviderAnswer ==
    [][/\ (last'.called /\ (last' # last \/ cache' # cache))
          => IF last'.outcome = "response" /\ ~last'.cache_hit
             THEN /\ Len(requests') = Len(requests) + 1
                  /\ last'.invoked # <<>>
             ELSE requests' = requests
       /\ Len(requests') # Len(requests)
          => /\ Len(requests') = Len(requests) + 1
             /\ last'.outcome = "response"
             /\ ~last'.cache_hit
             /\ last'.invoked # <<>>]_vars

\* The fallback answered one call, which left the one record there is, and
\* the same query was then answered from the cache.
C27_Witness ==
    /\ last.called
    /\ last.outcome = "response"
    /\ last.cache_hit
    /\ Len(requests) = 1
    /\ requests[1].model # "gpt-3.5-turbo"
    /\ last.response.content.by = "gpt-3.5-turbo"

\* d[k] as a read that inserts nothing: the default for a key not there.
ValueAt(d, k) == IF k \in DOMAIN d THEN d[k] ELSE 0

\* C28: with track_request called sequentially, total_savings is the sum of
\* the savings of all records, model_usage[m] is the number of records of
\* model m, and daily_costs[d] is the sum of the costs of the records whose
\* timestamp falls on date d.
C28_AccumulatorsAgreeWithLog ==
    /\ total_savings = Sum([i \in DOMAIN requests |-> requests[i].savings])
    /\ \A m \in DOMAIN model_usage \cup {requests[i].model : i \in DOMAIN requests} :
           ValueAt(model_usage, m) =
               Cardinality({i \in DOMAIN requests : requests[i].model = m})
    /\ \A d \in DOMAIN daily_costs
                 \cup {date(requests[i].timestamp) : i \in DOMAIN requests} :
           ValueAt(daily_costs, d) =
               Sum([i \in DOMAIN requests |->
                       IF date(requests[i].timestamp) = d
                       THEN requests[i].cost ELSE 0])

\* Two records of one model and one date, and the tables hold their totals.
C28_Witness ==
    /\ Len(requests) >= 2
    /\ requests[1].model = requests[2].model
    /\ date(requests[1].timestamp) = date(requests[2].timestamp)
    /\ requests[1].cost > 0
    /\ model_usage[requests[1].model] >= 2
    /\ daily_costs[date(requests[1].timestamp)]
           >= requests[1].cost + requests[2].cost

\* C29: a create() call with an explicit model name of the catalog that
\* returns a response returns one whose model field is the requested name.
C29_ExplicitModelHonoured ==
    (/\ last.called
     /\ last.model \in CatalogNames
     /\ last.outcome = "response")
    => last.response.model = last.model

\* C30: every auto-routed create() call that returns a response, made when a
\* rule with a catalog model matches the query, returns a response whose
\* model is the model of a matching rule of the highest priority, whatever
\* the cache holds for the query.
C30_RuleTakesEffect ==
    [][(/\ IsCall
        /\ last'.called
        /\ last'.model = "auto"
        /\ last'.outcome = "response"
        /\ TopMatching(custom_rules, analyze(last'.query)) # {})
       => \E i \in TopMatching(custom_rules, analyze(last'.query)) :
              last'.response.model = custom_rules[i].model]_vars
====
